---- MODULE Spec2Model ----
(***************************************************************************)
(* redis-tools (src/src/main.rs): the four commands scan-keys, all-items,  *)
(* del-pattern and compute-stats, each of which drains a SCAN stream into  *)
(* a key list and then works on that list.                                 *)
(*                                                                         *)
(* Keys are byte strings, written as sequences of byte values.  The store  *)
(* is the set of keys that currently hold a string value.  The command is  *)
(* one sequential task; pc is the await point it is suspended at.  Other   *)
(* clients of the store are the Writer actions.                            *)
(***************************************************************************)
EXTENDS Integers, Sequences, FiniteSets, TLC

\* ------------------------------------------------------------- bounds
\* The chunk size: 1000 in main.rs:175 and :206, scaled down here so that a
\* key list of a few keys spans several chunks.  Nothing below depends on its
\* value.
ChunkSize == 2
\* the most pages one scan stream yields before it ends
MaxPages == 3
\* the most keys in one page
MaxPageLen == 2
\* the most operations other clients perform while the command works
MaxWrites == 1
\* the primary nodes of a cluster, each with a cursor chain of its own
NumShards == 2
\* the most keys in a key list handed to compute-stats on its own
MaxStatsKeys == 3

\* ------------------------------------------------------------- keys
\* "a"
KeyA == <<97>>
\* "a:"
KeyAColon == <<97, 58>>
\* a key that is not valid UTF-8 (0xFF occurs in no UTF-8 text)
KeyRaw == <<255, 58>>

Universe == {KeyA, KeyAColon, KeyRaw}

Min(a, b) == IF a < b THEN a ELSE b

\* str < str of Rust: lexicographic by byte value, a proper prefix first
StrLt(a, b) ==
  \E n \in 0..Min(Len(a), Len(b)) :
     /\ \A j \in 1..n : a[j] = b[j]
     /\ \/ n = Len(a) /\ n < Len(b)
        \/ n < Len(a) /\ n < Len(b) /\ a[n + 1] < b[n + 1]

\* Key::into_string: Some(string) when the bytes are UTF-8, else None.  Every
\* byte of Universe is ASCII or 0xFF, for which UTF-8 validity is "all bytes
\* below 0x80".
IsUtf8(k) == \A j \in 1..Len(k) : k[j] < 128

\* keys.into_iter().flat_map(|key| key.into_string()): the keys of a page
\* that convert, in page order
RECURSIVE IntoStrings(_)
IntoStringsKeepAll(page) == page
IntoStrings(page) ==
  IF page = <<>> THEN <<>>
  ELSE (IF IsUtf8(Head(page)) THEN <<Head(page)>> ELSE <<>>)
       \o IntoStrings(Tail(page))

\* Vec::reverse
Reverse(s) == [j \in 1..Len(s) |-> s[Len(s) + 1 - j]]

\* Vec::sort: the stable ascending sort.  The element at position i goes to
\* the place that counts the elements below it and the equal ones not after it.
Sort(s) ==
  LET place(i) == Cardinality({m \in 1..Len(s) :
                     StrLt(s[m], s[i]) \/ (~StrLt(s[i], s[m]) /\ m <= i)})
  IN  [j \in 1..Len(s) |-> s[CHOOSE i \in 1..Len(s) : place(i) = j]]

\* main.rs:157-162: sort if asked, then reverse if asked
PostProcessReverseFirst(list, s, r) ==
  LET a == IF r THEN Reverse(list) ELSE list
  IN  IF s THEN Sort(a) ELSE a
PostProcess(list, s, r) ==
  LET a == IF s THEN Sort(list) ELSE list
  IN  IF r THEN Reverse(a) ELSE a

\* slice::chunks(ChunkSize): the n-th chunk (from 1) and the number of chunks
NumChunksDropsRest(list) == Len(list) \div ChunkSize
NumChunks(list) == (Len(list) + ChunkSize - 1) \div ChunkSize
ChunkAt(list, n) ==
  SubSeq(list, (n - 1) * ChunkSize + 1, Min(n * ChunkSize, Len(list)))

\* into_iter().take(limit)
TakeOneMore(list, n) == SubSeq(list, 1, Min(n + 1, Len(list)))
Take(list, n) == SubSeq(list, 1, Min(n, Len(list)))

Range(s) == {s[j] : j \in 1..Len(s)}

\* The pages a scan call can return.  A SCAN cursor walks the buckets of the
\* keyspace's hash table, so the keys of one page come in bucket order, none
\* twice; across pages any order and any repetition is possible (the table may
\* be rehashed between two calls).
BucketOrder == <<KeyAColon, KeyRaw, KeyA>>
Pages ==
  UNION {{[j \in 1..n |-> BucketOrder[f[j]]] :
            f \in {g \in [1..n -> 1..Len(BucketOrder)] :
                     \A x, y \in 1..n : x < y => g[x] < g[y]}} :
         n \in 0..MaxPageLen}

\* ------------------------------------------------------------- strings
\* "other" (main.rs:233)
OtherLabel == <<111, 116, 104, 101, 114>>
\* ":" (the default of --delimiter, main.rs:68)
Colon == <<58>>

\* str::strip_prefix: Some(rest) when s starts with p
StartsWith(s, p) == Len(p) <= Len(s) /\ SubSeq(s, 1, Len(p)) = p
StripPrefix(s, p) == SubSeq(s, Len(p) + 1, Len(s))

\* the position of the last occurrence of d in s, 0 if none (str::rsplit_once)
LastAt(s, d) ==
  LET hits == {j \in 1..(Len(s) + 1 - Len(d)) : SubSeq(s, j, j + Len(d) - 1) = d}
  IN  IF hits = {} THEN 0 ELSE CHOOSE j \in hits : \A h \in hits : j >= h
\* str::split_once(d): the position of the first occurrence of d in s, 0 if none
FirstAt(s, d) ==
  LET hits == {j \in 1..(Len(s) + 1 - Len(d)) : SubSeq(s, j, j + Len(d) - 1) = d}
  IN  IF hits = {} THEN 0 ELSE CHOOSE j \in hits : \A h \in hits : j <= h

\* main.rs:226-234: where one key is counted: "unmatched", or a group label
Classify(key, delimiter, prefix) ==
  IF ~StartsWith(key, prefix) THEN [unmatched |-> TRUE, label |-> <<>>]
  ELSE LET rest == StripPrefix(key, prefix)
           at == FirstAt(rest, delimiter)
       IN  IF at = 0 THEN [unmatched |-> FALSE, label |-> OtherLabel]
           ELSE [unmatched |-> FALSE, label |-> SubSeq(rest, 1, at - 1)]

\* a Counter that counts each distinct key once
CounterOfDistinct(list, delimiter, prefix) ==
  LET cls(k) == Classify(k, delimiter, prefix)
      labels == {cls(k).label : k \in {x \in Range(list) : ~cls(x).unmatched}}
  IN  [l \in labels |->
         Cardinality({k \in Range(list) : ~cls(k).unmatched /\ cls(k).label = l})]
\* main.rs:222-235: the Counter after the loop over the keys
CounterOf(list, delimiter, prefix) ==
  LET cls(j) == Classify(list[j], delimiter, prefix)
      labels == {cls(j).label : j \in {i \in 1..Len(list) : ~cls(i).unmatched}}
  IN  [l \in labels |->
         Cardinality({j \in 1..Len(list) : ~cls(j).unmatched /\ cls(j).label = l})]

\* main.rs:224-228: the keys that do not start with the prefix
OtherOf(list, delimiter, prefix) ==
  Cardinality({j \in 1..Len(list) : Classify(list[j], delimiter, prefix).unmatched})

\* Counter::most_common: the entries by descending count; entries of equal
\* count come in the hash map's iteration order, which is any order
Rankings(counter) ==
  LET n == Cardinality(DOMAIN counter)
  IN  {r \in [1..n -> DOMAIN counter] :
         /\ \A x, y \in 1..n : x # y => r[x] # r[y]
         /\ \A x, y \in 1..n : x < y => counter[r[x]] >= counter[r[y]]}

\* ------------------------------------------------------------- state
VARIABLES
  pc,        \* where the command is: "start", "scan", "scanned", "pipeline",
             \* "del", "sleep", "done", "failed"
  cmd,       \* the subcommand (main.rs:84)
  sorted, reversed, dry_run, limit, delimiter, prefix,   \* the options
  store,     \* the keys that hold a string value in the store
  lists,     \* the keys that hold a value of another type (a list)
  writes,    \* operations of other clients so far
  clustered, \* whether the client is connected to a cluster (main.rs:142)
  variant,   \* the scanner scan_stream chose: "single", "cluster"; "none"
             \* while there is no stream
  open,      \* cursor chains of the stream that have not reached cursor 0
  pagesSeen, \* pages the stream has yielded
  emitted,   \* the keys of those pages, in the order the stream yielded them
  result,    \* scan's result vector (main.rs:151)
  keys,      \* the command's key list (main.rs:86, 171, 193, 221)
  chunkNo,   \* chunks the loop has completed
  chunks,    \* the chunks the loop has taken, in order
  delCalls,  \* the argument of every DEL issued, in order
  removed,   \* keys removed by those DELs (the sum of their replies)
  trace,     \* "del" and "sleep" in the order they happened
  pb,        \* position of the progress bar
  getCalls,  \* the keys of every pipeline sent, in order
  out,       \* lines printed, in order
  report,    \* rows of the stats table
  other,     \* keys not matching the prefix (main.rs:224)
  err        \* what ended the command: "scan", "get", "del" (the call that
             \* failed), "nil", "wrongtype" (the reply that failed), or "none"

vars == <<pc, cmd, sorted, reversed, dry_run, limit, delimiter, prefix, store,
          lists, writes, clustered, variant, open, pagesSeen, emitted, result, keys, chunkNo, chunks, delCalls,
          removed, trace, pb, getCalls, out, report, other, err>>

Commands == {"ScanKeys", "AllItems", "DelPattern", "ComputeStats"}
\* Option<usize>: None, or a number of items
None == -1
Limits == {None, 0, ChunkSize + 1}
Delimiters == {Colon}
Prefixes == {<<>>, KeyA, KeyAColon}

\* main.rs:82-83: the arguments are parsed and the client is connected.  An
\* option that the subcommand does not have holds its default value.
Init ==
  /\ pc = "start"
  /\ clustered \in BOOLEAN
  /\ variant = "none" /\ open = 0
  /\ cmd \in Commands
  /\ sorted \in BOOLEAN /\ reversed \in BOOLEAN
  /\ dry_run \in (IF cmd = "DelPattern" THEN BOOLEAN ELSE {TRUE})
  /\ limit \in (IF cmd = "AllItems" THEN Limits ELSE {None})
  /\ delimiter \in (IF cmd = "ComputeStats" THEN Delimiters ELSE {Colon})
  /\ prefix \in (IF cmd = "ComputeStats" THEN Prefixes ELSE {<<>>})
  /\ store = Universe /\ lists = {}
  /\ writes = 0
  /\ pagesSeen = 0 /\ emitted = <<>> /\ result = <<>> /\ keys = <<>>
  /\ chunkNo = 0 /\ chunks = <<>> /\ delCalls = <<>> /\ removed = 0 /\ trace = <<>> /\ pb = 0
  /\ getCalls = <<>> /\ out = <<>> /\ report = <<>> /\ other = 0
  /\ err = "none"

\* ------------------------------------------------------------- scan
\* main.rs:138-147, 150: scan_stream asks the client once whether it is
\* clustered and opens the cluster scan (a cursor chain for every primary
\* node) or the plain scan (one cursor chain)
ScanStream ==
  /\ pc = "start"
  /\ variant' = IF clustered THEN "cluster" ELSE "single"
  /\ open' = IF clustered THEN NumShards ELSE 1
  /\ pc' = "scan"
  /\ UNCHANGED <<clustered, lists, chunks, cmd, sorted, reversed, dry_run, limit, delimiter, prefix,
                 store, writes, pagesSeen, emitted, result, keys, chunkNo, delCalls,
                 removed, trace, pb, getCalls, out, report, other, err>>

\* main.rs:152: `while let Some(page)` goes on for every page the stream yields
LoopEndsOnEmptyPage(page) == page # <<>>
LoopGoesOn(page) == TRUE

\* main.rs:152-155: the stream yields the answer of one SCAN call of a chain
\* that is still open: a page, and a cursor that is 0 (last: the chain is
\* finished) or not.  The keys of the page that convert to strings are
\* appended to result.  A chain is finite: the pages of one scan are at most
\* MaxPages, so a chain ends where no page could follow for the others.
ScanPage ==
  /\ pc = "scan"
  /\ open > 0
  /\ pagesSeen < MaxPages
  /\ \E page \in Pages, last \in BOOLEAN :
       /\ pagesSeen + open >= MaxPages => last
       /\ emitted' = emitted \o page
       /\ open' = IF last THEN open - 1 ELSE open
       /\ LET r == result \o IntoStrings(page)
          IN  IF LoopGoesOn(page)
              THEN result' = r /\ pc' = "scan"
              ELSE result' = PostProcess(r, sorted, reversed) /\ pc' = "scanned"
  /\ pagesSeen' = pagesSeen + 1
  /\ UNCHANGED <<clustered, variant, lists, chunks, cmd, sorted, reversed, dry_run, limit, delimiter, prefix,
                 store, writes, keys, chunkNo, delCalls, removed, trace, pb,
                 getCalls, out, report, other, err>>

\* main.rs:153: what scan hands to its caller when a page is an error
ScanErrReturnPartial(res) == [ok |-> TRUE, value |-> res]
ScanErrReturn(res) == [ok |-> FALSE, value |-> <<>>]

\* main.rs:153: the stream yields an error; `?` returns it at once
ScanPageErr ==
  /\ pc = "scan"
  /\ open > 0
  /\ LET r == ScanErrReturn(result)
     IN  /\ result' = r.value
         /\ pc' = IF r.ok THEN "scanned" ELSE "failed"
         /\ err' = "scan"
  /\ UNCHANGED <<variant, open, clustered, lists, chunks, cmd, sorted, reversed, dry_run, limit, delimiter, prefix,
                 store, writes, pagesSeen, emitted, keys, chunkNo, delCalls,
                 removed, trace, pb, getCalls, out, report, other>>

\* main.rs:152, 157-163: every chain is finished and the stream ends; sort,
\* reverse, return the vector
ScanEnd ==
  /\ pc = "scan"
  /\ open = 0
  /\ result' = PostProcess(result, sorted, reversed)
  /\ pc' = "scanned"
  /\ UNCHANGED <<variant, open, clustered, lists, chunks, cmd, sorted, reversed, dry_run, limit, delimiter, prefix, store, writes,
                 pagesSeen, emitted, keys, chunkNo, delCalls, removed, trace,
                 pb, getCalls, out, report, other, err>>

\* scan has returned: its vector moves to the caller, its stream is dropped
ScanLocalsGone ==
  /\ pagesSeen' = 0 /\ emitted' = <<>> /\ result' = <<>>
  /\ variant' = "none" /\ open' = 0

\* ------------------------------------------------------------- scan-keys
\* main.rs:86-87
ScanKeys ==
  /\ pc = "scanned" /\ cmd = "ScanKeys"
  /\ keys' = result
  /\ out' = out \o [j \in 1..Len(result) |-> <<"key", result[j]>>]
  /\ pc' = "done"
  /\ ScanLocalsGone
  /\ UNCHANGED <<clustered, lists, chunks, cmd, sorted, reversed, dry_run, limit, delimiter, prefix,
                 store, writes, chunkNo, delCalls, removed, trace, pb,
                 getCalls, report, other, err>>

\* ------------------------------------------------------------- all-items
\* the loop `for chunk in keys.chunks(..)` after n chunks: on, or finished
AfterChunk(list, n, on) == IF n < NumChunks(list) THEN on ELSE "done"

\* main.rs:178, 180, 207: `?` on a failed call returns the error from the
\* command, whose loop was at the step `on`
ErrReturnRetries(on) == on
ErrReturn(on) == "failed"

\* main.rs:171-175.  result keeps the list as scan returned it, so that the
\* truncated list can be compared with it.
AllItemsStart ==
  /\ pc = "scanned" /\ cmd = "AllItems"
  /\ keys' = IF limit = None THEN result ELSE Take(result, limit)
  /\ pc' = AfterChunk(keys', 0, "pipeline")
  /\ pagesSeen' = 0 /\ emitted' = <<>>
  /\ variant' = "none" /\ open' = 0
  /\ UNCHANGED <<clustered, result, lists, chunks, cmd, sorted, reversed, dry_run, limit, delimiter, prefix, store,
                 writes, chunkNo, delCalls, removed, trace, pb, getCalls, out,
                 report, other, err>>

\* what all-items prints for a key of a pipeline that was answered
Line(k) == IF k \in store THEN <<"value", k>> ELSE <<"nil", k>>

\* main.rs:176-183: one pipeline of GETs is sent and answered, and its values
\* are printed.  A key that does not exist answers nil; whether nil converts
\* to a String (the text "nil") or fails the conversion depends on the client
\* library's build features, so both are possible (see PipelineNil).
Pipeline ==
  /\ pc = "pipeline"
  /\ Range(ChunkAt(keys, chunkNo + 1)) \cap lists = {}
  /\ LET chunk == ChunkAt(keys, chunkNo + 1)
     IN  /\ chunks' = Append(chunks, chunk)
         /\ getCalls' = Append(getCalls, chunk)
         /\ out' = out \o [j \in 1..Len(chunk) |-> Line(chunk[j])]
  /\ chunkNo' = chunkNo + 1
  /\ pc' = AfterChunk(keys, chunkNo + 1, "pipeline")
  /\ UNCHANGED <<variant, open, clustered, lists, cmd, sorted, reversed, dry_run, limit, delimiter, prefix,
                 store, writes, pagesSeen, emitted, result, keys, delCalls,
                 removed, trace, pb, report, other, err>>

\* main.rs:180: a GET of the pipeline is answered with WRONGTYPE (its key
\* holds no string); pipe.all() returns the first error among the replies
PipelineWrongType ==
  /\ pc = "pipeline"
  /\ Range(ChunkAt(keys, chunkNo + 1)) \cap lists # {}
  /\ chunks' = Append(chunks, ChunkAt(keys, chunkNo + 1))
  /\ getCalls' = Append(getCalls, ChunkAt(keys, chunkNo + 1))
  /\ pc' = ErrReturn("pipeline") /\ err' = "wrongtype"
  /\ UNCHANGED <<variant, open, clustered, lists, cmd, sorted, reversed, dry_run, limit, delimiter, prefix,
                 store, writes, pagesSeen, emitted, result, keys, chunkNo,
                 delCalls, removed, trace, pb, out, report, other>>

\* main.rs:180: a nil among the answers fails the conversion to Vec<String>
PipelineNil ==
  /\ pc = "pipeline"
  /\ ~(Range(ChunkAt(keys, chunkNo + 1)) \subseteq store \cup lists)
  /\ chunks' = Append(chunks, ChunkAt(keys, chunkNo + 1))
  /\ getCalls' = Append(getCalls, ChunkAt(keys, chunkNo + 1))
  /\ pc' = ErrReturn("pipeline") /\ err' = "nil"
  /\ UNCHANGED <<variant, open, clustered, lists, cmd, sorted, reversed, dry_run, limit, delimiter, prefix,
                 store, writes, pagesSeen, emitted, result, keys, chunkNo,
                 delCalls, removed, trace, pb, out, report, other>>

\* main.rs:180: the pipeline fails in transport
PipelineErr ==
  /\ pc = "pipeline"
  /\ chunks' = Append(chunks, ChunkAt(keys, chunkNo + 1))
  /\ getCalls' = Append(getCalls, ChunkAt(keys, chunkNo + 1))
  /\ pc' = ErrReturn("pipeline") /\ err' = "get"
  /\ UNCHANGED <<variant, open, clustered, lists, cmd, sorted, reversed, dry_run, limit, delimiter, prefix,
                 store, writes, pagesSeen, emitted, result, keys, chunkNo,
                 delCalls, removed, trace, pb, out, report, other>>

\* ------------------------------------------------------------- del-pattern
\* main.rs:194-197, 206: a dry run returns after the count is printed
AfterCountIgnoresDryRun(dry, list) == AfterChunk(list, 0, "del")
AfterCount(dry, list) == IF dry THEN "done" ELSE AfterChunk(list, 0, "del")

\* main.rs:193-205
DelPatternStart ==
  /\ pc = "scanned" /\ cmd = "DelPattern"
  /\ keys' = result
  /\ out' = IF dry_run THEN Append(out, <<"keys to delete", Len(result)>>)
            ELSE out
  /\ pc' = AfterCount(dry_run, result)
  /\ ScanLocalsGone
  /\ UNCHANGED <<clustered, lists, chunks, cmd, sorted, reversed, dry_run, limit, delimiter, prefix, store,
                 writes, chunkNo, delCalls, removed, trace, pb, getCalls,
                 report, other, err>>

\* main.rs:208: every DEL that succeeded is followed by the sleep
AfterDelSkipsLastSleep(list, n) == AfterChunk(list, n, "sleep")
AfterDel(list, n) == "sleep"

\* main.rs:207: the keys the DEL of the n-th chunk is given
DelArgs(list, n) == list

\* main.rs:207: one DEL is sent and answered; a key that is not there is
\* skipped by the store, the reply counts the keys removed
Del ==
  /\ pc = "del"
  /\ LET args == DelArgs(keys, chunkNo + 1)
     IN  /\ chunks' = Append(chunks, ChunkAt(keys, chunkNo + 1))
         /\ delCalls' = Append(delCalls, args)
         /\ store' = store \ Range(args)
         /\ lists' = lists \ Range(args)
         /\ removed' = removed + Cardinality((store \cup lists) \cap Range(args))
  /\ trace' = Append(trace, "del")
  /\ pc' = AfterDel(keys, chunkNo + 1)
  /\ UNCHANGED <<variant, open, clustered, cmd, sorted, reversed, dry_run, limit, delimiter, prefix,
                 writes, pagesSeen, emitted, result, keys, chunkNo, pb,
                 getCalls, out, report, other, err>>

\* main.rs:207: the DEL fails
DelErr ==
  /\ pc = "del"
  /\ chunks' = Append(chunks, ChunkAt(keys, chunkNo + 1))
  /\ delCalls' = Append(delCalls, DelArgs(keys, chunkNo + 1))
  /\ pc' = ErrReturn("del") /\ err' = "del"
  /\ UNCHANGED <<variant, open, clustered, lists, cmd, sorted, reversed, dry_run, limit, delimiter, prefix,
                 store, writes, pagesSeen, emitted, result, keys, chunkNo,
                 removed, trace, pb, getCalls, out, report, other>>

\* main.rs:208-210: the sleep ends, the progress bar advances, the loop goes on
Sleep ==
  /\ pc = "sleep"
  /\ trace' = Append(trace, "sleep")
  /\ pb' = pb + Len(ChunkAt(keys, chunkNo + 1))
  /\ chunkNo' = chunkNo + 1
  /\ pc' = AfterChunk(keys, chunkNo + 1, "del")
  /\ UNCHANGED <<variant, open, clustered, lists, chunks, cmd, sorted, reversed, dry_run, limit, delimiter, prefix,
                 store, writes, pagesSeen, emitted, result, keys, delCalls,
                 removed, getCalls, out, report, other, err>>

\* ------------------------------------------------------------- compute-stats
\* main.rs:221-247
ComputeStats ==
  /\ pc = "scanned" /\ cmd = "ComputeStats"
  /\ keys' = result
  /\ other' = OtherOf(result, delimiter, prefix)
  /\ LET counter == CounterOf(result, delimiter, prefix)
     IN  \E r \in Rankings(counter) :
           report' = [j \in 1..Len(r) |-> <<prefix \o r[j], counter[r[j]]>>]
  /\ pc' = "done"
  /\ ScanLocalsGone
  /\ UNCHANGED <<clustered, lists, chunks, cmd, sorted, reversed, dry_run, limit, delimiter, prefix, store, writes,
                 chunkNo, delCalls, removed, trace, pb, getCalls, out, err>>

\* ------------------------------------------------------------- other clients
\* Other clients work on the store while the command is between two of its
\* calls.  What they do during the scan shows in the pages (SCAN may return a
\* key twice, or miss one, while the keyspace changes), which ScanPage draws
\* freely.
Working == pc \in {"pipeline", "del", "sleep"}

\* another client replaces keys by lists (DEL and RPUSH in one transaction)
WriterList ==
  /\ Working /\ writes < MaxWrites
  /\ \E ks \in (SUBSET Universe) \ {{}} :
       /\ ~(ks \subseteq lists)
       /\ lists' = lists \cup ks
       /\ store' = store \ ks
  /\ writes' = writes + 1
  /\ UNCHANGED <<variant, open, clustered, chunks, pc, cmd, sorted, reversed, dry_run, limit, delimiter, prefix,
                 pagesSeen, emitted, result, keys, chunkNo, delCalls, removed,
                 trace, pb, getCalls, out, report, other, err>>

\* another client sets keys to strings
WriterSet ==
  /\ Working /\ writes < MaxWrites
  /\ \E ks \in (SUBSET Universe) \ {{}} :
       /\ ~(ks \subseteq store)
       /\ store' = store \cup ks
       /\ lists' = lists \ ks
  /\ writes' = writes + 1
  /\ UNCHANGED <<variant, open, clustered, chunks, pc, cmd, sorted, reversed, dry_run, limit, delimiter, prefix,
                 pagesSeen, emitted, result, keys, chunkNo, delCalls, removed,
                 trace, pb, getCalls, out, report, other, err>>

\* another client deletes keys
WriterDel ==
  /\ Working /\ writes < MaxWrites
  /\ \E ks \in (SUBSET Universe) \ {{}} :
       /\ ks \cap (store \cup lists) # {}
       /\ store' = store \ ks
       /\ lists' = lists \ ks
  /\ writes' = writes + 1
  /\ UNCHANGED <<variant, open, clustered, chunks, pc, cmd, sorted, reversed, dry_run, limit, delimiter, prefix,
                 pagesSeen, emitted, result, keys, chunkNo, delCalls, removed,
                 trace, pb, getCalls, out, report, other, err>>

Next ==
  \/ ScanStream \/ ScanPage \/ ScanPageErr \/ ScanEnd
  \/ ScanKeys
  \/ AllItemsStart \/ Pipeline \/ PipelineWrongType \/ PipelineNil \/ PipelineErr
  \/ DelPatternStart \/ Del \/ DelErr \/ Sleep
  \/ ComputeStats
  \/ WriterList \/ WriterSet \/ WriterDel

Spec == Init /\ [][Next]_vars

\* ------------------------------------------------------------- the scan alone
\* The collection of the keys up to scan's return, for scan-keys.  The loop
\* of main.rs:152 is polled by the runtime whenever the stream has a page, an
\* error or its end to yield, and the server answers every SCAN call: a scan
\* that can take a step eventually takes one.
InitScan == Init /\ cmd = "ScanKeys"

NextScan == ScanStream \/ ScanPage \/ ScanPageErr \/ ScanEnd

SpecScan == InitScan /\ [][NextScan]_vars /\ WF_vars(NextScan)

\* ------------------------------------------------------------- compute-stats alone
\* compute_stats as a function of the key list: scan has returned any list
\* of keys such as "a:1", "x" or "other:1", and compute-stats takes it from
\* there.
StatsKeys ==
  { <<97, 58, 49>>,                     \* "a:1"
    <<97, 58, 50>>,                     \* "a:2"
    <<98, 58, 49>>,                     \* "b:1"
    <<120>>,                            \* "x"
    <<111, 116, 104, 101, 114, 58, 49>>,\* "other:1"
    <<97, 58, 49, 58, 50>> }            \* "a:1:2"

InitStats ==
  /\ pc = "scanned"
  /\ cmd = "ComputeStats"
  /\ sorted = FALSE /\ reversed = FALSE /\ dry_run = TRUE /\ limit = None
  /\ delimiter \in Delimiters
  /\ prefix \in Prefixes
  /\ store = Universe /\ lists = {}
  /\ writes = 0
  /\ clustered = FALSE /\ variant = "none" /\ open = 0
  /\ result \in UNION {[1..n -> StatsKeys] : n \in 0..MaxStatsKeys}
  /\ pagesSeen = 1 /\ emitted = result /\ keys = <<>>
  /\ chunkNo = 0 /\ chunks = <<>> /\ delCalls = <<>> /\ removed = 0 /\ trace = <<>> /\ pb = 0
  /\ getCalls = <<>> /\ out = <<>> /\ report = <<>> /\ other = 0
  /\ err = "none"

SpecStats == InitStats /\ [][ComputeStats]_vars

\* ------------------------------------------------------------- properties
RECURSIVE Concat(_)
Concat(ss) == IF ss = <<>> THEN <<>> ELSE Head(ss) \o Concat(Tail(ss))

\* how often k occurs in s
Count(s, k) == Cardinality({j \in 1..Len(s) : s[j] = k})

\* the least number of chunks of ChunkSize keys that hold n keys
Ceil(n) == CHOOSE c \in 0..n : c * ChunkSize >= n /\ (c = 0 \/ (c - 1) * ChunkSize < n)

Sleeps == Count(trace, "sleep")

LiveDelete == cmd = "DelPattern" /\ ~dry_run

\* C1: in a live delete, the n-th DEL is given exactly the keys of the n-th
\* chunk of the key list, so no DEL carries more than ChunkSize keys.
C1_EachDelTakesItsChunk ==
  \A n \in 1..Len(delCalls) :
     /\ delCalls[n] = ChunkAt(keys, n)
     /\ Len(delCalls[n]) <= ChunkSize

\* C2: a dry run of del-pattern prints the number of collected keys, issues
\* no DEL, and leaves the store's key set as it was.
C2_DryRunLeavesStore ==
  (cmd = "DelPattern" /\ dry_run) =>
     /\ delCalls = <<>>
     /\ removed = 0
     /\ store = Universe
     /\ pc = "done" => out = << <<"keys to delete", Len(keys)>> >>

C2_Witness ==
  /\ cmd = "DelPattern" /\ dry_run /\ pc = "done"
  /\ Len(keys) > ChunkSize

\* C3: with other clients removing and re-creating keys between the calls,
\* the DELs of a live delete remove no more keys than were collected.
C3_RemovedAtMostCollected ==
  LiveDelete => removed <= Len(keys)

\* C4 as stated: a finished live delete has waited between successive DELs
\* only: one wait less than DELs, and none after the last DEL.
C4_NoWaitAfterLastDel ==
  (LiveDelete /\ pc = "done" /\ keys # <<>>) =>
     /\ Len(delCalls) = Ceil(Len(keys))
     /\ Sleeps = Ceil(Len(keys)) - 1
     /\ trace[Len(trace)] = "del"

\* C4 amended: every DEL that succeeds is followed by one wait, the last DEL
\* included: DELs and waits alternate, and a live delete that finishes has
\* issued ceil(L / ChunkSize) DELs and as many waits, and has advanced the
\* progress bar by every chunk's size.
C4_WaitAfterEveryDel ==
  LiveDelete =>
     /\ \A j \in 1..Len(trace) : trace[j] = IF j % 2 = 1 THEN "del" ELSE "sleep"
     /\ Sleeps = chunkNo
     /\ pc = "done" =>
          /\ Len(delCalls) = Ceil(Len(keys))
          /\ Sleeps = Ceil(Len(keys))
          /\ pb = Len(keys)

C4_Witness ==
  /\ LiveDelete /\ pc = "done"
  /\ Len(keys) = 2 * ChunkSize + 1
  /\ Len(trace) = 6
  /\ <<Len(chunks[1]), Len(chunks[2]), Len(chunks[3])>> = <<ChunkSize, ChunkSize, 1>>

\* C5: without sort and reverse, scan returns the keys of the pages exactly
\* as the stream yielded them, in order.
C5_UnsortedIsScanOrder ==
  (pc = "scanned" /\ ~sorted /\ ~reversed) => result = emitted

\* C6: whatever the flags, scan returns every key as often as the stream
\* yielded it.
C6_SameMultiset ==
  pc = "scanned" => \A k \in Universe : Count(result, k) = Count(emitted, k)

C8_ChunksPartitionKeys ==
  cmd \in {"AllItems", "DelPattern"} =>
     /\ \A n \in 1..Len(chunks) :
          /\ Len(chunks[n]) \in 1..ChunkSize
          /\ n < Len(chunks) => Len(chunks[n]) = ChunkSize
     /\ Concat(chunks) = SubSeq(keys, 1, Len(Concat(chunks)))
     /\ (pc = "done" /\ ~(cmd = "DelPattern" /\ dry_run)) =>
          /\ Len(chunks) = Ceil(Len(keys))
          /\ Concat(chunks) = keys
          /\ keys = <<>> => (getCalls = <<>> /\ delCalls = <<>>)

C8_Witness ==
  /\ cmd = "AllItems" /\ pc = "done"
  /\ Len(chunks) = 3
  /\ Len(chunks[3]) < ChunkSize

\* C9: when the store call of a chunk fails, the command ends with that
\* error: the failed call was the last one and was made once, and what the
\* chunks before it did stands (their values are printed, their DELs and
\* waits are done).
C9_FailedChunkEndsCommand ==
  err \in {"get", "del", "nil", "wrongtype"} =>
     /\ pc = "failed"
     /\ Len(chunks) = chunkNo + 1
     /\ Len(getCalls) + Len(delCalls) = chunkNo + 1
     /\ LET before == Concat(SubSeq(chunks, 1, chunkNo))
        IN  IF err # "del"
            THEN /\ Len(out) = Len(before)
                 /\ \A j \in 1..Len(out) : out[j][2] = before[j]
            ELSE /\ trace = [j \in 1..(2 * chunkNo) |->
                               IF j % 2 = 1 THEN "del" ELSE "sleep"]
                 /\ pb = Len(before)
                 /\ chunkNo > 0 => store \cap Range(delCalls[1]) = {} \/ writes > 0

C9_Witness ==
  /\ pc = "failed" /\ err = "del"
  /\ chunkNo = 1
  /\ removed > 0
  /\ store \cap Range(keys) = {}

\* C10: when a page of the scan is an error, scan returns the error and no
\* keys, and the command does nothing more: no GET, no DEL, no line printed,
\* no stats table.
C10_ScanErrorEndsCommand ==
  err = "scan" =>
     /\ pc = "failed"
     /\ result = <<>> /\ keys = <<>>
     /\ getCalls = <<>> /\ delCalls = <<>>
     /\ out = <<>> /\ report = <<>>
     /\ store = Universe

C10_Witness ==
  /\ err = "scan" /\ pc = "failed"
  /\ pagesSeen >= 2
  /\ IntoStrings(emitted) # <<>>

\* C11: in all-items, a key that is gone or holds no string gives an empty
\* result for that key and does not end the command: no run ends on the reply
\* to such a key.
C11_BadKeyDoesNotAbort ==
  cmd = "AllItems" => err \notin {"nil", "wrongtype"}

\* C12: all-items works on the first min(N, L) keys of the collected list (all
\* of them without a limit, none for N = 0); it sends one pipeline per chunk,
\* in list order, and prints the values in the order of the keys.
C12_LimitThenChunks ==
  (cmd = "AllItems" /\ pc \in {"pipeline", "done", "failed"} /\ err # "scan") =>
     LET n == IF limit = None \/ limit > Len(result) THEN Len(result) ELSE limit
         fetched == Concat(getCalls)
     IN  /\ Len(keys) = n
         /\ \A j \in 1..n : keys[j] = result[j]
         /\ Len(getCalls) = Len(chunks)
         /\ Len(fetched) <= n
         /\ \A j \in 1..Len(fetched) : fetched[j] = keys[j]
         /\ Len(out) <= Len(fetched)
         /\ \A j \in 1..Len(out) : out[j][2] = keys[j]
         /\ pc = "done" => (fetched = keys /\ Len(out) = n)

C12_Witness ==
  /\ cmd = "AllItems" /\ pc = "done"
  /\ limit = ChunkSize + 1
  /\ Len(result) > limit
  /\ Len(getCalls) = 2
  /\ Len(out) = limit

\* ------------------------------------------------------------- compute-stats
RECURSIVE SumCounts(_)
SumCounts(rows) == IF rows = <<>> THEN 0 ELSE Head(rows)[2] + SumCounts(Tail(rows))

StatsDone == cmd = "ComputeStats" /\ pc = "done"

\* key = prefix followed by rest
IsPrefixed(key, rest) == key = prefix \o rest
\* the ends of key
Suffixes(key) == {SubSeq(key, j, Len(key)) : j \in 1..(Len(key) + 1)}
\* d occurs in s
Occurs(d, s) == \E a, b \in 0..Len(s) : a < b /\ SubSeq(s, a + 1, b) = d
\* rest = label, delimiter, anything, and the delimiter does not begin earlier
SplitsAt(rest, label) ==
  /\ \E tail \in Suffixes(rest) : rest = label \o delimiter \o tail
  /\ \A m \in 0..(Len(label) - 1) :
       SubSeq(rest, m + 1, m + Len(delimiter)) # delimiter
\* the keys (by position) that belong under the label
Members(label) ==
  {j \in 1..Len(keys) :
     \E rest \in Suffixes(keys[j]) :
        /\ IsPrefixed(keys[j], rest)
        /\ \/ SplitsAt(rest, label)
           \/ ~Occurs(delimiter, rest) /\ label = OtherLabel}
\* the keys (by position) that do not start with the prefix
Unmatched ==
  {j \in 1..Len(keys) : ~\E rest \in Suffixes(keys[j]) : IsPrefixed(keys[j], rest)}
\* the candidates for a label: the beginnings of the keys' ends, and "other"
Labels ==
  {OtherLabel} \cup
  UNION {{SubSeq(s, 1, n) : n \in 0..Len(s)} :
           s \in UNION {Suffixes(keys[j]) : j \in 1..Len(keys)}}
\* the row of the table for the label, or <<>>
RowOf(label) ==
  LET at == {j \in 1..Len(report) : report[j][1] = prefix \o label}
  IN  IF at = {} THEN <<>> ELSE report[CHOOSE j \in at : TRUE]

\* C13: the counts of all groups and the unmatched count add up to the number
\* of keys.
C13_CountsAddUp ==
  StatsDone => SumCounts(report) + other = Len(keys)

C13_Witness ==
  /\ StatsDone
  /\ Len(keys) = 3 /\ other = 1
  /\ keys[1] = keys[2]
  /\ Len(report) = 1 /\ report[1][2] = 2

\* C14: the groups come by descending count, and groups of equal count in the
\* order in which their labels were first met in the key list.
C14_TiesInFirstSeenOrder ==
  StatsDone =>
     \A x, y \in 1..Len(report) :
        x < y =>
          \/ report[x][2] > report[y][2]
          \/ /\ report[x][2] = report[y][2]
             /\ \E j \in 1..Len(keys) :
                  /\ \E l \in Labels : j \in Members(l) /\ report[x][1] = prefix \o l
                  /\ \A i \in 1..j :
                       ~\E l \in Labels : i \in Members(l) /\ report[y][1] = prefix \o l

\* C15: a key that does not start with the prefix counts as unmatched only;
\* any other key counts under the part of its remainder before the first
\* delimiter, or under "other" when the remainder has no delimiter.
\* ["a:1", "a:2", "b:1"] with ":" and no prefix gives a = 2, b = 1, unmatched 0.
C15_Classification ==
  StatsDone =>
     /\ other = Cardinality(Unmatched)
     /\ \A l \in Labels :
          IF Members(l) = {} THEN RowOf(l) = <<>>
          ELSE RowOf(l) = <<prefix \o l, Cardinality(Members(l))>>
     /\ Len(report) = Cardinality({l \in Labels : Members(l) # {}})
     /\ (keys = <<<<97, 58, 49>>, <<97, 58, 50>>, <<98, 58, 49>>>>
           /\ delimiter = Colon /\ prefix = <<>>) =>
          (report = <<<<<<97>>, 2>>, <<<<98>>, 1>>>> /\ other = 0)

C15_Witness ==
  /\ StatsDone
  /\ keys = <<<<97, 58, 49>>, <<97, 58, 50>>, <<98, 58, 49>>>>
  /\ delimiter = Colon /\ prefix = <<>>
  /\ report = <<<<<<97>>, 2>>, <<<<98>>, 1>>>>

\* C18: the count under "other" is the number of keys that start with the
\* prefix and have no delimiter in their remainder.
C18_OtherIsReserved ==
  StatsDone =>
     LET plain == {j \in 1..Len(keys) :
                     \E rest \in Suffixes(keys[j]) :
                        IsPrefixed(keys[j], rest) /\ ~Occurs(delimiter, rest)}
         row == RowOf(OtherLabel)
     IN  (IF row = <<>> THEN 0 ELSE row[2]) = Cardinality(plain)

\* ------------------------------------------------------------- stopped deletes
\* the DELs that have completed
DelsDone == Count(trace, "del")

\* C16: wherever a live delete is stopped, after k completed DELs a key that
\* belongs to a later chunk only, and that no other client has touched, is
\* still in the store.
C16_LaterChunksUntouched ==
  (LiveDelete /\ writes = 0) =>
     LET k == DelsDone
         done == Range(Concat([n \in 1..k |-> ChunkAt(keys, n)]))
         later == Range(keys) \ done
     IN  later \subseteq store

\* ------------------------------------------------------------- collecting the keys
\* the chains the chosen scanner follows
Chains == IF clustered THEN NumShards ELSE 1

\* C17: scan returns its vector only when every cursor chain of the stream is
\* finished (one chain on a single node, one for every shard on a cluster); a
\* page without keys whose chain goes on does not end the collection; the
\* scanner is chosen once, by the clustered check, and stays; and a scan whose
\* chains are finite eventually returns.
C17_CollectsUntilComplete ==
  /\ [][(pc = "scan" /\ pc' = "scanned") => (open = 0 /\ open' = 0)]_vars
  /\ [][(pc = "scan" /\ pagesSeen' = pagesSeen + 1 /\ emitted' = emitted
           /\ open' = open) => pc' = "scan"]_vars
  /\ [](pc \in {"scan", "scanned"} =>
          variant = (IF clustered THEN "cluster" ELSE "single"))
  /\ [][pc = "scan" => variant' = variant]_vars
  /\ [](pc = "scanned" => pagesSeen >= Chains)
  /\ <>(pc \in {"scanned", "failed"})

C17_Witness ==
  /\ pc = "scanned"
  /\ variant = "cluster"
  /\ pagesSeen > NumShards
  /\ emitted = <<>>

====
